---------------------------- MODULE Spec2Model ----------------------------
(***************************************************************************)
(* Model of salpy: raster sampling (extract_values), the loss metrics      *)
(* (get_loss, perform_distance), the genetic search (minimize_loss, which  *)
(* drives DEAP's eaSimple) and the driver (positional_correction).         *)
(*                                                                         *)
(* Planar coordinates are measured in raster cells: the point (x, y) lies  *)
(* in the interior of cell (x, y).  Real numbers are exact rationals       *)
(* [n, d] (d = 0 is NaN), and a loss is a rational or the signed square    *)
(* root of one, so that no metric is rounded.                              *)
(***************************************************************************)
EXTENDS Integers, Sequences, FiniteSets, TLC

VARIABLES
    fcall,        \* the arguments a caller passes to extract_values, get_loss, perform_distance
    fpc,          \* "call" before the call, the name of the function called after it
    fret,         \* what the call returned
    inp,          \* the arguments of positional_correction, the same in every call
    rng,          \* the process-wide random generator
    pc,           \* where the process is: "idle" between calls, else the step of the run
    run,          \* calls of positional_correction completed
    population,   \* eaSimple's population
    offspring,    \* eaSimple's offspring of the current generation
    gen,          \* generations completed in the current run
    pool,         \* the multiprocessing pool of the current run: "none", "open", "closed"
    nevals,       \* calls of objective_function made by the process
    optim_result, \* what minimize_loss returned in the current run
    output,       \* what positional_correction returned last
    results       \* what minimize_loss returned, run by run

fnvars == <<fcall, fpc, fret>>

runvars == <<inp, rng, pc, run, population, offspring, gen, pool, nevals, optim_result,
             output, results>>

vars == <<fcall, fpc, fret, inp, rng, pc, run, population, offspring, gen, pool, nevals,
          optim_result, output, results>>

(***************************************************************************)
(* Bounds of the model.                                                    *)
(***************************************************************************)
RasterW == 3
RasterH == 2
MaxPts  == 2
MaxBuf  == 1
MaxPop  == 2
MaxIter == 2
MaxRuns == 2

(***************************************************************************)
(* Exact arithmetic.                                                       *)
(***************************************************************************)
Abs(i) == IF i < 0 THEN 0 - i ELSE i

Sgn(i) == IF i < 0 THEN 0 - 1 ELSE IF i = 0 THEN 0 ELSE 1

RECURSIVE GCD(_, _)
GCD(a, b) == IF b = 0 THEN a ELSE CHOOSE ret \in {GCD(b, r) : r \in {a % b}} : TRUE

\* float('nan')
NaN == [n |-> 0, d |-> 0]

IsNaN(q) == q.d = 0

\* the rational n/d in lowest terms, d > 0
Norm(n, d) ==
    CHOOSE ret \in UNION {
        {[n |-> Sgn(nd[1]) * (Abs(nd[1]) \div g), d |-> nd[2] \div g] :
            g \in {GCD(Abs(nd[1]), nd[2])}} :
        nd \in {<<n, d>>}} : TRUE

R(i) == [n |-> i, d |-> 1]

RAdd(p, q) == Norm(p.n * q.d + q.n * p.d, p.d * q.d)
RSub(p, q) == Norm(p.n * q.d - q.n * p.d, p.d * q.d)
RMul(p, q) == Norm(p.n * q.n, p.d * q.d)
RAbs(p)    == [n |-> Abs(p.n), d |-> p.d]
\* the common factor of the denominators is left out of the cross multiplication
CommonDen(p, q) == IF GCD(p.d, q.d) = 0 THEN 1 ELSE GCD(p.d, q.d)
RLt(p, q)  == p.n * (q.d \div CommonDen(p, q)) < q.n * (p.d \div CommonDen(p, q))
RLe(p, q)  == p.n * (q.d \div CommonDen(p, q)) <= q.n * (p.d \div CommonDen(p, q))
RMax(p, q) == IF RLt(p, q) THEN q ELSE p
RMin(p, q) == IF RLt(q, p) THEN q ELSE p

RECURSIVE SumInts(_)
SumInts(s) == IF s = <<>> THEN 0 ELSE Head(s) + SumInts(Tail(s))

RECURSIVE MinInts(_)
MinInts(s) ==
    IF Len(s) = 1 THEN Head(s)
    ELSE LET m == MinInts(Tail(s)) IN IF Head(s) <= m THEN Head(s) ELSE m

RECURSIVE MaxInts(_)
MaxInts(s) ==
    IF Len(s) = 1 THEN Head(s)
    ELSE LET m == MaxInts(Tail(s)) IN IF Head(s) >= m THEN Head(s) ELSE m

\* the sequence without its first occurrence of v
RECURSIVE RemoveOne(_, _)
RemoveOne(s, v) ==
    IF s = <<>> THEN <<>>
    ELSE IF Head(s) = v THEN Tail(s) ELSE <<Head(s)>> \o RemoveOne(Tail(s), v)

RECURSIVE SortInts(_)
SortInts(s) ==
    IF s = <<>> THEN <<>>
    ELSE LET m == MinInts(s) IN <<m>> \o SortInts(RemoveOne(s, m))

\* numpy.mean, numpy.median, numpy.min, numpy.max, numpy.sum of a non-empty array
NpMean(s) == Norm(SumInts(s), Len(s))

NpMedian(s) ==
    LET t == SortInts(s)
        k == Len(s)
    IN  IF k % 2 = 1 THEN R(t[(k + 1) \div 2])
        ELSE Norm(t[k \div 2] + t[k \div 2 + 1], 2)

NpMin(s) == R(MinInts(s))
NpMax(s) == R(MaxInts(s))
NpSum(s) == R(SumInts(s))


(***************************************************************************)
(* Point sets (GeoDataFrame) and raster surfaces.  A frame is its set of   *)
(* column names and its rows; a row carries a value for every column the   *)
(* package reads or writes (a filler where the frame lacks the column).    *)
(***************************************************************************)
Row(x, y, ref) ==
    [x |-> x, y |-> y, ref |-> ref, orig_x |-> 0, orig_y |-> 0, extracted_value |-> NaN]

Frame(cols, rows) == [cols |-> cols, rows |-> rows]

BaseCols == {"geometry", "elevation"}

\* cell (c, r) of the grid, row-major as numpy stores it
AllCells == [i \in 1..(RasterW * RasterH) |-> <<(i - 1) % RasterW, (i - 1) \div RasterW>>]

CellSet == {AllCells[i] : i \in 1..(RasterW * RasterH)}

Const100Raster == [nodata |-> 0 - 99, cells |-> [cr \in CellSet |-> 100]]

RampRaster == [nodata |-> 0 - 99, cells |-> [cr \in CellSet |-> 1 + cr[1] + RasterW * cr[2]]]

HoledRaster ==
    [nodata |-> 0 - 99,
     cells  |-> [cr \in CellSet |-> IF cr = <<0, 0>> THEN 0 - 99 ELSE 1 + cr[1] + RasterW * cr[2]]]

Rasters == {Const100Raster, RampRaster, HoledRaster}

(***************************************************************************)
(* position_adjustment: a new frame with the coordinates shifted and the   *)
(* coordinates it was given kept in orig_x, orig_y.                        *)
(***************************************************************************)
\* a shift that records the coordinates after the shift as the original ones
AdjustRowShiftedOrig(row, add_x, add_y) ==
    [row EXCEPT !.x = row.x + add_x, !.y = row.y + add_y,
                !.orig_x = row.x + add_x, !.orig_y = row.y + add_y]

AdjustRow(row, add_x, add_y) ==
    [row EXCEPT !.orig_x = row.x, !.orig_y = row.y, !.x = row.x + add_x, !.y = row.y + add_y]

position_adjustment(gdf, add_x, add_y) ==
    Frame(gdf.cols \cup {"orig_x", "orig_y"},
          [i \in 1..Len(gdf.rows) |-> AdjustRow(gdf.rows[i], add_x, add_y)])

(***************************************************************************)
(* extract_values.  The in-memory dataset is opened without a nodata       *)
(* value, so dataset.nodata is None; rasterio.mask.mask(crop=True) then    *)
(* returns the bounding window of the geometry, clipped to the raster,     *)
(* with the cells outside the geometry filled with 0, and raises           *)
(* ValueError when the geometry does not overlap the raster.               *)
(***************************************************************************)
Stats == {"mean", "median", "min", "max", "sum"}

DatasetNodata == "None"

MaskFill == 0

\* the cells whose centre the sample geometry covers: the cell of the point for
\* buf = 0, the disk of radius buf around it otherwise
InGeometry(cr, x, y, buf) == Abs(cr[1] - x) + Abs(cr[2] - y) <= buf

\* a window padded by one cell on every side
InWindowPadded(cr, x, y, buf) == Abs(cr[1] - x) <= buf + 1 /\ Abs(cr[2] - y) <= buf + 1

InWindow(cr, x, y, buf) == Abs(cr[1] - x) <= buf /\ Abs(cr[2] - y) <= buf

WindowCells(x, y, buf) ==
    LET Keep(cr) == InWindow(cr, x, y, buf) IN SelectSeq(AllCells, Keep)

\* out_image[0] of rasterio.mask.mask
MaskImage(raster, x, y, buf) ==
    CHOOSE ret \in
        {[i \in 1..Len(w) |->
             IF InGeometry(w[i], x, y, buf) THEN raster.cells[w[i]] ELSE MaskFill] :
            w \in {WindowCells(x, y, buf)}} : TRUE

\* out_image[0] != dataset.nodata, elementwise
NotDatasetNodata(v) == IF DatasetNodata = "None" THEN TRUE ELSE v # DatasetNodata

ValidData(raster, x, y, buf) == SelectSeq(MaskImage(raster, x, y, buf), NotDatasetNodata)

\* the body of the per-row try block: the value stored and the exception swallowed
ExtractOne(raster, x, y, buf, stat) ==
    IF WindowCells(x, y, buf) = <<>>
    THEN [value |-> NaN, swallowed |-> "ValueError: Input shapes do not overlap raster"]
    ELSE CHOOSE ret \in
            {IF Len(v) > 0
             THEN CASE stat = "mean"   -> [value |-> NpMean(v),   swallowed |-> "none"]
                    [] stat = "median" -> [value |-> NpMedian(v), swallowed |-> "none"]
                    [] stat = "min"    -> [value |-> NpMin(v),    swallowed |-> "none"]
                    [] stat = "max"    -> [value |-> NpMax(v),    swallowed |-> "none"]
                    [] stat = "sum"    -> [value |-> NpSum(v),    swallowed |-> "none"]
                    [] OTHER -> [value |-> NaN, swallowed |-> "ValueError: Unsupported statistic"]
             ELSE [value |-> NaN, swallowed |-> "none"] :
                v \in {ValidData(raster, x, y, buf)}} : TRUE

\* an extraction without the per-row try block: the first failure ends the batch
extract_values_unguarded(gdf, raster, buf, stat) ==
    IF \E i \in 1..Len(gdf.rows) :
          ExtractOne(raster, gdf.rows[i].x, gdf.rows[i].y, buf, stat).swallowed # "none"
    THEN [raised |-> "ValueError", frame |-> gdf, printed |-> <<>>]
    ELSE [raised  |-> "none",
          frame   |-> Frame(gdf.cols \cup {"extracted_value"},
                            [i \in 1..Len(gdf.rows) |->
                                [gdf.rows[i] EXCEPT !.extracted_value =
                                    ExtractOne(raster, gdf.rows[i].x, gdf.rows[i].y, buf, stat).value]]),
          printed |-> [i \in 1..Len(gdf.rows) |-> "none"]]

\* extract_values returns normally on every path: raised is what reaches the caller
extract_values(gdf, raster, buf, stat) ==
    CHOOSE ret \in
        {[raised  |-> "none",
          frame   |-> Frame(gdf.cols \cup {"extracted_value"},
                            [i \in 1..Len(gdf.rows) |->
                                [gdf.rows[i] EXCEPT !.extracted_value = ex[i].value]]),
          printed |-> [i \in 1..Len(gdf.rows) |-> ex[i].swallowed]] :
            ex \in {[i \in 1..Len(gdf.rows) |->
                        ExtractOne(raster, gdf.rows[i].x, gdf.rows[i].y, buf, stat)]}} : TRUE

(***************************************************************************)
(* Loss values.  A loss is the real number                                 *)
(*     base      when om is FALSE,      1 - base   when om is TRUE,        *)
(* where base is the rational q, or sgn(q) * sqrt(|q|) when root is TRUE.  *)
(* Losses are kept canonical (a rational is never written as a root or as  *)
(* 1 - base), so two losses are the same real number exactly when they are *)
(* the same record.                                                        *)
(***************************************************************************)
RECURSIVE ISqrtIn(_, _, _)
ISqrtIn(lo, hi, n) ==
    IF lo >= hi THEN lo
    ELSE CHOOSE ret \in
            {IF mid * mid <= n THEN ISqrtIn(mid, hi, n) ELSE ISqrtIn(lo, mid - 1, n) :
                mid \in {(lo + hi + 1) \div 2}} : TRUE

\* floor of the square root
ISqrt(n) == CHOOSE ret \in {ISqrtIn(0, IF m < 46340 THEN m ELSE 46340, m) : m \in {n}} : TRUE

IsSquare(n) == \E r \in {ISqrt(n)} : r * r = n

LossRat(q) == [om |-> FALSE, root |-> FALSE, q |-> q]

LossNaN == LossRat(NaN)

\* sgn(q) * sqrt(|q|)
LossRoot(q) ==
    CHOOSE ret \in
        {IF IsSquare(Abs(p.n)) /\ IsSquare(p.d)
         THEN LossRat([n |-> Sgn(p.n) * ISqrt(Abs(p.n)), d |-> ISqrt(p.d)])
         ELSE [om |-> FALSE, root |-> TRUE, q |-> p] :
            p \in {q}} : TRUE

\* 1 - v in floating point arithmetic without rounding; 1 - NaN is NaN
OneMinus(v) ==
    IF IsNaN(v.q) THEN v
    ELSE IF v.root THEN [v EXCEPT !.om = ~v.om]
    ELSE LossRat(RSub(R(1), v.q))

LossIsNaN(v) == IsNaN(v.q)

\* the signed square of a loss that is not of the form 1 - base: monotone in the loss
SignedSquare(v) == IF v.root THEN v.q ELSE Norm(Sgn(v.q.n) * v.q.n * v.q.n, v.q.d * v.q.d)

\* v < w for losses that are not of the form 1 - base
LossLt(v, w) ==
    IF v.root = w.root THEN RLt(v.q, w.q) ELSE RLt(SignedSquare(v), SignedSquare(w))

(***************************************************************************)
(* The distance metrics, on two sequences of rationals of the same         *)
(* positive length.                                                        *)
(***************************************************************************)
Methods == {"dtw", "euclidean", "manhattan", "correlation", "area", "hausdorff"}

RECURSIVE SumRats(_)
SumRats(s) ==
    IF s = <<>> THEN R(0)
    ELSE CHOOSE ret \in {RAdd(Head(s), rest) : rest \in {SumRats(Tail(s))}} : TRUE

AbsDiffs(u, v) == [i \in 1..Len(u) |-> RAbs(RSub(u[i], v[i]))]

SqDiffs(u, v) == [i \in 1..Len(u) |-> RMul(RSub(u[i], v[i]), RSub(u[i], v[i]))]

\* scipy.spatial.distance.euclidean
euclidean(u, v) == LossRoot(SumRats(SqDiffs(u, v)))

\* scipy.spatial.distance.cityblock
cityblock(u, v) == LossRat(SumRats(AbsDiffs(u, v)))

\* the signed area np.sum(u - v), where differences of opposite sign cancel
SignedAreaBetween(u, v) == LossRat(SumRats([i \in 1..Len(u) |-> RSub(u[i], v[i])]))

\* np.sum(np.abs(u - v))
AreaBetween(u, v) == LossRat(SumRats(AbsDiffs(u, v)))

Centered(u) ==
    LET m == RMul(SumRats(u), [n |-> 1, d |-> Len(u)])
    IN  [i \in 1..Len(u) |-> RSub(u[i], m)]

Dot(u, v) == SumRats([i \in 1..Len(u) |-> RMul(u[i], v[i])])

\* the Pearson correlation coefficient of u and v; NaN when a variance is zero
Pearson(u, v) ==
    LET cu == Centered(u)
        cv == Centered(v)
        uv == Dot(cu, cv)
        uu == Dot(cu, cu)
        vv == Dot(cv, cv)
    IN  IF uu.n = 0 \/ vv.n = 0 THEN LossNaN
        ELSE LossRoot(Norm(Sgn(uv.n) * uv.n * uv.n * uu.d * vv.d, uv.d * uv.d * uu.n * vv.n))

\* scipy.spatial.distance.correlation: the correlation DISTANCE, 1 - Pearson
correlation(u, v) == OneMinus(Pearson(u, v))

\* dtw.dtw(u, v).distance: step pattern symmetric2, local cost |u[i] - v[j]|
RECURSIVE DtwCost(_, _, _, _)
DtwCost(u, v, i, j) ==
    LET d == RAbs(RSub(u[i], v[j]))
    IN  IF i = 1 /\ j = 1 THEN d
        ELSE IF i = 1 THEN RAdd(DtwCost(u, v, 1, j - 1), d)
        ELSE IF j = 1 THEN RAdd(DtwCost(u, v, i - 1, 1), d)
        ELSE RMin(RAdd(DtwCost(u, v, i - 1, j - 1), RAdd(d, d)),
                  RMin(RAdd(DtwCost(u, v, i - 1, j), d), RAdd(DtwCost(u, v, i, j - 1), d)))

DtwDistance(u, v) == LossRat(DtwCost(u, v, Len(u), Len(v)))

RECURSIVE MinDistTo(_, _)
MinDistTo(p, v) ==
    IF Len(v) = 1 THEN RAbs(RSub(p, v[1]))
    ELSE RMin(RAbs(RSub(p, Head(v))), MinDistTo(p, Tail(v)))

\* scipy.spatial.distance.directed_hausdorff on 1D point sets
RECURSIVE DirectedHausdorff(_, _)
DirectedHausdorff(u, v) ==
    IF Len(u) = 1 THEN MinDistTo(u[1], v)
    ELSE RMax(MinDistTo(Head(u), v), DirectedHausdorff(Tail(u), v))

\* the forward directed distance alone
forward_hausdorff(u, v) == LossRat(DirectedHausdorff(u, v))

hausdorff_distance(u, v) == LossRat(RMax(DirectedHausdorff(u, v), DirectedHausdorff(v, u)))

(***************************************************************************)
(* get_loss and perform_distance.  A call returns a record; raised is the  *)
(* exception that reaches the caller ("none" when the call returns).       *)
(***************************************************************************)
NoValidDataLoss == 1000

UndefinedCorrelationLoss == 1000

\* the reference column and the extracted column of a frame, as arrays
ColumnValues(frame) == [i \in 1..Len(frame.rows) |-> frame.rows[i].ref]

ExtractedValues(frame) == [i \in 1..Len(frame.rows) |-> frame.rows[i].extracted_value]

\* a filter that stops at the first pair with a NaN
ValidIndicesBeforeNaN(lidar_values, raster_values) ==
    LET Valid(i) == \A k \in 1..i : ~(IsNaN(lidar_values[k]) \/ IsNaN(raster_values[k]))
    IN  SelectSeq([i \in 1..Len(lidar_values) |-> i], Valid)

\* valid_indices = ~(np.isnan(lidar_values) | np.isnan(raster_values))
ValidIndices(lidar_values, raster_values) ==
    LET Valid(i) == ~(IsNaN(lidar_values[i]) \/ IsNaN(raster_values[i]))
    IN  SelectSeq([i \in 1..Len(lidar_values) |-> i], Valid)

TakeIndices(values, idx) == [k \in 1..Len(idx) |-> values[idx[k]]]

\* lidar_values[valid_indices] and raster_values[valid_indices]
ValidPairs(lidar_values, raster_values) ==
    CHOOSE ret \in
        {[u |-> TakeIndices(lidar_values, idx), v |-> TakeIndices(raster_values, idx)] :
            idx \in {ValidIndices(lidar_values, raster_values)}} : TRUE

\* the if/elif chain on the method name; "raise" stands for the final else branch
MethodLoss(method, u, v) ==
    CASE method = "dtw"         -> [raised |-> "none", loss |-> DtwDistance(u, v)]
      [] method = "euclidean"   -> [raised |-> "none", loss |-> euclidean(u, v)]
      [] method = "manhattan"   -> [raised |-> "none", loss |-> cityblock(u, v)]
      [] method = "correlation" ->
            LET corr == correlation(u, v)
            IN  [raised |-> "none",
                 loss   |-> IF ~LossIsNaN(corr) THEN OneMinus(corr)
                            ELSE LossRat(R(UndefinedCorrelationLoss))]
      [] method = "area"        -> [raised |-> "none", loss |-> AreaBetween(u, v)]
      [] method = "hausdorff"   -> [raised |-> "none", loss |-> hausdorff_distance(u, v)]
      [] OTHER                  -> [raised |-> "ValueError", loss |-> LossNaN]

\* a loss that is computed on the reference column whether or not one was named
LossOfExtractedAlwaysCompared(extracted, minimizing_method, lidar_value) ==
    CHOOSE ret \in
        {IF Len(kept.u) = 0
         THEN [raised |-> "none", loss_value |-> LossRat(R(NoValidDataLoss)),
               adjusted_footprints |-> extracted]
         ELSE [raised |-> MethodLoss(minimizing_method, kept.u, kept.v).raised,
               loss_value |-> MethodLoss(minimizing_method, kept.u, kept.v).loss,
               adjusted_footprints |-> extracted] :
            kept \in {ValidPairs(ColumnValues(extracted), ExtractedValues(extracted))}} : TRUE

\* the part of get_loss after the extraction: extracted is the frame extract_values returned
LossOfExtracted(extracted, minimizing_method, lidar_value) ==
    IF lidar_value = "None"
    THEN [raised |-> "none", loss_value |-> LossRat(R(0)), adjusted_footprints |-> extracted]
    ELSE CHOOSE ret \in
            {IF Len(kept.u) = 0
             THEN [raised |-> "none", loss_value |-> LossRat(R(NoValidDataLoss)),
                   adjusted_footprints |-> extracted]
             ELSE \* the chain on the method name
                  [raised |-> MethodLoss(minimizing_method, kept.u, kept.v).raised,
                   loss_value |-> MethodLoss(minimizing_method, kept.u, kept.v).loss,
                   adjusted_footprints |-> extracted] :
                kept \in {ValidPairs(ColumnValues(extracted), ExtractedValues(extracted))}} : TRUE

get_loss(lidar_footprints, add_x, add_y, buf, input_rast, minimizing_method, target_variable, lidar_value) ==
    IF lidar_value # "None" /\ lidar_value \notin lidar_footprints.cols
    THEN [raised |-> "ValueError", loss_value |-> LossNaN, adjusted_footprints |-> lidar_footprints]
    ELSE CHOOSE ret \in UNION {
            {LossOfExtracted(extracted, minimizing_method, lidar_value) :
                extracted \in {extract_values(adjusted, input_rast, buf, target_variable).frame}} :
            adjusted \in {position_adjustment(lidar_footprints, add_x, add_y)}} : TRUE

\* perform_distance: the same chain on the frame as given (no offset); its hausdorff
\* branch calls a name that scipy.stats does not provide
DistanceOfExtracted(extracted, method, value_column) ==
    IF value_column = "None"
    THEN [raised |-> "none", distance |-> LossRat(R(0))]
    ELSE CHOOSE ret \in
            {IF Len(kept.u) = 0
             THEN [raised |-> "none", distance |-> LossRat(R(NoValidDataLoss))]
             ELSE IF method = "hausdorff"
             THEN [raised |-> "ImportError", distance |-> LossNaN]
             ELSE [raised |-> MethodLoss(method, kept.u, kept.v).raised,
                   distance |-> MethodLoss(method, kept.u, kept.v).loss] :
                kept \in {ValidPairs(ColumnValues(extracted), ExtractedValues(extracted))}} : TRUE

perform_distance(gdf, raster, method, buf, target_variable, value_column) ==
    IF value_column # "None" /\ value_column \notin gdf.cols
    THEN [raised |-> "ValueError", distance |-> LossNaN]
    ELSE CHOOSE ret \in
            {DistanceOfExtracted(extracted, method, value_column) :
                extracted \in {extract_values(gdf, raster, buf, target_variable).frame}} : TRUE

(***************************************************************************)
(* linear_alignment: the points of each shot group are projected on the    *)
(* principal axis of the group.  A shot number is a sequence of            *)
(* characters; coordinates are rationals.                                  *)
(***************************************************************************)
ShotGroupChars == 12

\* .astype(str).str[:12]
ShotGroup(shot_number) ==
    SubSeq(shot_number, 1,
           IF Len(shot_number) < ShotGroupChars THEN Len(shot_number) ELSE ShotGroupChars)

\* Series.unique(): the values in the order of their first appearance
RECURSIVE Unique(_)
Unique(s) ==
    IF s = <<>> THEN <<>>
    ELSE CHOOSE ret \in
            {IF \E k \in 1..Len(rest) : rest[k] = s[Len(s)] THEN rest ELSE Append(rest, s[Len(s)]) :
                rest \in {Unique(SubSeq(s, 1, Len(s) - 1))}} : TRUE

AlignRow(x, y, shot_number) ==
    [x |-> R(x), y |-> R(y), shot_number |-> shot_number,
     orig_x |-> NaN, orig_y |-> NaN, coords_x |-> NaN, coords_y |-> NaN]

\* gdf[gdf['shot_number'].astype(str).str[:12] == shot]
ShotSubset(gdf, shot) ==
    LET InShot(row) == ShotGroup(row.shot_number) = shot
    IN  SelectSeq(gdf.rows, InShot)

\* np.mean(coords, axis=0), one coordinate
Centroid(values) == RMul(SumRats(values), [n |-> 1, d |-> Len(values)])

\* coords - centroid, one coordinate
CenteredOn(values, c) == [i \in 1..Len(values) |-> RSub(values[i], c)]

\* an entry of np.cov(centered, rowvar=False): np.cov subtracts the mean again and
\* divides by the number of points less one
CovEntry(a, b) ==
    RMul(SumRats([i \in 1..Len(a) |->
                     RMul(RSub(a[i], Centroid(a)), RSub(b[i], Centroid(b)))]),
         [n |-> 1, d |-> Len(a) - 1])

\* eigenvectors[:, -1] of np.linalg.eigh(cov_mat), the unit eigenvector of the larger
\* eigenvalue, for a group that is spread along one coordinate axis only (the groups
\* of the frames below lie on one row); its sign does not change the projection
PrincipalDirection(cx, cy) ==
    CASE CovEntry(cx, cy).n = 0 /\ RLt(CovEntry(cy, cy), CovEntry(cx, cx)) -> <<R(1), R(0)>>
      [] CovEntry(cx, cy).n = 0 /\ RLt(CovEntry(cx, cx), CovEntry(cy, cy)) -> <<R(0), R(1)>>

\* np.dot(pt - centroid, direction)
ProjScalar(px, py, direction) == RAdd(RMul(px, direction[1]), RMul(py, direction[2]))

\* the else branch: a group of several points
ProjectGroup(rows) ==
    LET xs == [i \in 1..Len(rows) |-> rows[i].x]
        ys == [i \in 1..Len(rows) |-> rows[i].y]
        mx == Centroid(xs)
        my == Centroid(ys)
        direction == PrincipalDirection(CenteredOn(xs, mx), CenteredOn(ys, my))
        Px(i) == RAdd(mx, RMul(ProjScalar(RSub(xs[i], mx), RSub(ys[i], my), direction), direction[1]))
        Py(i) == RAdd(my, RMul(ProjScalar(RSub(xs[i], mx), RSub(ys[i], my), direction), direction[2]))
    IN  [i \in 1..Len(rows) |->
            [rows[i] EXCEPT !.orig_x = xs[i], !.orig_y = ys[i],
                            !.coords_x = Px(i), !.coords_y = Py(i),
                            !.x = Px(i), !.y = Py(i)]]

\* the body of the loop over the shot groups: the rows of one adjusted_gdf
AlignGroup(rows) ==
    IF Len(rows) = 1
    THEN <<[rows[1] EXCEPT !.orig_x = rows[1].x, !.orig_y = rows[1].y,
                           !.coords_x = rows[1].x, !.coords_y = rows[1].y]>>
    ELSE ProjectGroup(rows)

\* the rows of adjusted_gdf_list, one group after the other
RECURSIVE AdjustedRows(_, _)
AdjustedRows(gdf, shot_ids) ==
    IF shot_ids = <<>> THEN <<>>
    ELSE AlignGroup(ShotSubset(gdf, Head(shot_ids))) \o AdjustedRows(gdf, Tail(shot_ids))

AlignedCols == {"orig_x", "orig_y", "coords_x", "coords_y"}

\* pd.concat raises ValueError on an empty list ("No objects to concatenate")
linear_alignment(gdf) ==
    IF "shot_number" \notin gdf.cols
    THEN [raised |-> "ValueError", frame |-> gdf]
    ELSE CHOOSE ret \in
            {IF shot_ids = <<>>
             THEN [raised |-> "ValueError", frame |-> gdf]
             ELSE [raised |-> "none",
                   frame  |-> Frame(gdf.cols \cup AlignedCols, AdjustedRows(gdf, shot_ids))] :
                shot_ids \in {Unique([i \in 1..Len(gdf.rows) |->
                                          ShotGroup(gdf.rows[i].shot_number)])}} : TRUE

(***************************************************************************)
(* The process-wide random generator (module random).  Its state is one    *)
(* number and the count of numbers drawn; random.random() steps the state  *)
(* and returns state / RngMod in [0, 1); random.seed puts it in a state    *)
(* that depends on the seed alone.  Offsets live on the integer grid: a    *)
(* drawn real is rounded down to it.                                       *)
(***************************************************************************)
RngMod == 16

RngStep(s) == (5 * s + 7) % RngMod

\* random.random(): the generator after the draw; its field s is the number drawn
Draw(g) == [s |-> RngStep(g.s), n |-> g.n + 1]

\* random.seed(seed)
Seeded(g, seed) == [s |-> seed % RngMod, n |-> g.n]

\* random.uniform(lo, hi) = lo + (hi - lo) * random.random()
Uniform(lo, hi, u) == lo + ((hi - lo) * u) \div RngMod

\* random.random() < pct / 100
Below(pct, u) == u * 100 < pct * RngMod

\* random.choice over n elements: a 1-based index
Choice(n, u) == 1 + (u * n) \div RngMod

\* random.gauss(0, 1), from the quantile (2u + 1) / (2 RngMod) of the draw, rounded to
\* the nearest integer
Gauss(u) ==
    LET pm == ((2 * u + 1) * 500) \div RngMod
    IN  IF pm < 67 THEN 0 - 2
        ELSE IF pm < 309 THEN 0 - 1
        ELSE IF pm < 691 THEN 0
        ELSE IF pm < 933 THEN 1
        ELSE 2

(***************************************************************************)
(* The genetic operators minimize_loss registers, and DEAP's eaSimple.     *)
(***************************************************************************)
Seed      == 1118
CxPbPct   == 70
MutPbPct  == 20
IndPbPct  == 20
AlphaPct  == 50
TournSize == 3
NaNFitness == 1000

Individual(x, y) == [x |-> x, y |-> y, valid |-> FALSE, fit |-> LossNaN]

\* In the operators below a value that is used more than once is bound by x \in {e},
\* which evaluates e once.

\* toolbox.population(n): n individuals, each drawing attr_float_x then attr_float_y
RECURSIVE MakePopulation(_, _, _, _)
MakePopulation(n, g, lower_bounds, upper_bounds) ==
    IF n = 0 THEN [inds |-> <<>>, rng |-> g]
    ELSE CHOOSE ret \in UNION {
            {[inds |-> <<Individual(Uniform(lower_bounds[1], upper_bounds[1], g1.s),
                                    Uniform(lower_bounds[2], upper_bounds[2], Draw(g1).s))>>
                       \o rest.inds,
              rng  |-> rest.rng] :
                rest \in {MakePopulation(n - 1, Draw(g1), lower_bounds, upper_bounds)}} :
            g1 \in {Draw(g)}} : TRUE

\* the first individual of lowest loss: max(..., key=fitness) and selBest(..., 1)[0]
\* with weights (-1.0,)
RECURSIVE FirstBestFrom(_, _)
FirstBestFrom(best, rest) ==
    IF rest = <<>> THEN best
    ELSE CHOOSE ret \in
            {FirstBestFrom(b, Tail(rest)) :
                b \in {IF LossLt(Head(rest).fit, best.fit) THEN Head(rest) ELSE best}} : TRUE

\* a selection that takes the first individual whatever its loss
selFirst(individuals) == Head(individuals)

selBest(individuals) == FirstBestFrom(Head(individuals), Tail(individuals))

\* tools.selRandom(individuals, k)
RECURSIVE selRandom(_, _, _)
selRandom(individuals, k, g) ==
    IF k = 0 THEN [inds |-> <<>>, rng |-> g]
    ELSE CHOOSE ret \in UNION {
            {[inds |-> <<individuals[Choice(Len(individuals), g1.s)]>> \o rest.inds,
              rng  |-> rest.rng] :
                rest \in {selRandom(individuals, k - 1, g1)}} :
            g1 \in {Draw(g)}} : TRUE

\* tools.selTournament(individuals, k, tournsize=3)
RECURSIVE selTournament(_, _, _)
selTournament(individuals, k, g) ==
    IF k = 0 THEN [inds |-> <<>>, rng |-> g]
    ELSE CHOOSE ret \in UNION {
            {[inds |-> <<selBest(aspirants.inds)>> \o rest.inds, rng |-> rest.rng] :
                rest \in {selTournament(individuals, k - 1, aspirants.rng)}} :
            aspirants \in {selRandom(individuals, TournSize, g)}} : TRUE

\* one coordinate of tools.cxBlend: gamma = (1 + 2 alpha) random() - alpha,
\* the child is (1 - gamma) x1 + gamma x2
Blend(x1, x2, u) ==
    x1 + (((100 + 2 * AlphaPct) * u - AlphaPct * RngMod) * (x2 - x1)) \div (100 * RngMod)

\* tools.cxBlend(ind1, ind2, alpha=0.5), then del fitness.values of both children
cxBlend(ind1, ind2, g) ==
    CHOOSE ret \in
        {[a   |-> Individual(Blend(ind1.x, ind2.x, g1.s), Blend(ind1.y, ind2.y, Draw(g1).s)),
          b   |-> Individual(Blend(ind2.x, ind1.x, g1.s), Blend(ind2.y, ind1.y, Draw(g1).s)),
          rng |-> Draw(g1)] :
            g1 \in {Draw(g)}} : TRUE

\* one coordinate of tools.mutGaussian: with probability indpb, add random.gauss(0, 1)
MutateCoordinate(v, g) ==
    CHOOSE ret \in
        {IF Below(IndPbPct, g1.s)
         THEN [v |-> v + Gauss(Draw(g1).s), rng |-> Draw(g1)]
         ELSE [v |-> v, rng |-> g1] :
            g1 \in {Draw(g)}} : TRUE

\* a mutation that leaves the fitness of the individual in place
mutGaussianKeepingFitness(ind, g) ==
    CHOOSE ret \in UNION {
        {[ind |-> [ind EXCEPT !.x = mx.v, !.y = my.v], rng |-> my.rng] :
            my \in {MutateCoordinate(ind.y, mx.rng)}} :
        mx \in {MutateCoordinate(ind.x, g)}} : TRUE

\* tools.mutGaussian(individual, mu=0, sigma=1, indpb=0.2), then del fitness.values
mutGaussian(ind, g) ==
    CHOOSE ret \in UNION {
        {[ind |-> Individual(mx.v, my.v), rng |-> my.rng] :
            my \in {MutateCoordinate(ind.y, mx.rng)}} :
        mx \in {MutateCoordinate(ind.x, g)}} : TRUE

\* varAnd, first loop: for i in range(1, len(offspring), 2), mate with probability cxpb
RECURSIVE CrossoverFrom(_, _, _)
CrossoverFrom(inds, i, g) ==
    IF i > Len(inds) THEN [inds |-> inds, rng |-> g]
    ELSE CHOOSE ret \in UNION {
            IF Below(CxPbPct, g1.s)
            THEN {CrossoverFrom([inds EXCEPT ![i - 1] = m.a, ![i] = m.b], i + 2, m.rng) :
                     m \in {cxBlend(inds[i - 1], inds[i], g1)}}
            ELSE {CrossoverFrom(inds, i + 2, g1)} :
            g1 \in {Draw(g)}} : TRUE

\* varAnd, second loop: for i in range(len(offspring)), mutate with probability mutpb
RECURSIVE MutationFrom(_, _, _)
MutationFrom(inds, i, g) ==
    IF i > Len(inds) THEN [inds |-> inds, rng |-> g]
    ELSE CHOOSE ret \in UNION {
            IF Below(MutPbPct, g1.s)
            THEN {MutationFrom([inds EXCEPT ![i] = m.ind], i + 1, m.rng) :
                     m \in {mutGaussian(inds[i], g1)}}
            ELSE {MutationFrom(inds, i + 1, g1)} :
            g1 \in {Draw(g)}} : TRUE

varAnd(inds, g) ==
    CHOOSE ret \in
        {MutationFrom(crossed.inds, 1, crossed.rng) :
            crossed \in {CrossoverFrom(inds, 2, g)}} : TRUE

(***************************************************************************)
(* minimize_loss and positional_correction, step by step.                  *)
(***************************************************************************)
NoneResult == [none |-> TRUE, best_x |-> 0, best_y |-> 0, best_value |-> LossNaN]

\* an emptiness test that never answers yes
EmptyInputNever(gdf) == Len(gdf.rows) < 0

\* len(lidar_footprints) == 0
EmptyInput(gdf) == Len(gdf.rows) = 0

\* objective_function(individual): the fitness, or the exception get_loss raised
FitnessOf(result) ==
    IF result.raised # "none" THEN [raised |-> result.raised, fit |-> LossNaN]
    ELSE IF LossIsNaN(result.loss_value)
    THEN [raised |-> "none", fit |-> LossRat(R(NaNFitness))]
    ELSE [raised |-> "none", fit |-> result.loss_value]

objective_function(args, ind) ==
    CHOOSE ret \in
        {FitnessOf(result) :
            result \in {get_loss(args.gdf, ind.x, ind.y, args.buf, args.raster, args.method,
                                 args.stat, args.lidar_value)}} : TRUE

\* for ind, fit in zip(invalid_ind, map(toolbox.evaluate, invalid_ind)): the
\* individuals from position i on, the evaluations made and the exception raised
RECURSIVE EvaluateFrom(_, _, _, _)
EvaluateFrom(args, inds, i, count) ==
    IF i > Len(inds) THEN [inds |-> inds, raised |-> "none", nevals |-> count]
    ELSE IF inds[i].valid THEN EvaluateFrom(args, inds, i + 1, count)
    ELSE CHOOSE ret \in
            {IF r.raised # "none" THEN [inds |-> inds, raised |-> r.raised, nevals |-> count + 1]
             ELSE EvaluateFrom(args, [inds EXCEPT ![i].valid = TRUE, ![i].fit = r.fit],
                               i + 1, count + 1) :
                r \in {objective_function(args, inds[i])}} : TRUE

\* toolbox.map(toolbox.evaluate, invalid_ind): the builtin map, or pool.map, which has
\* to pickle objective_function, a function local to minimize_loss
EvaluateInvalid(args, inds) ==
    IF args.parallel /\ \E i \in 1..Len(inds) : ~inds[i].valid
    THEN [inds |-> inds, raised |-> "PicklingError", nevals |-> 0]
    ELSE EvaluateFrom(args, inds, 1, 0)

\* positional_correction is called; minimize_loss runs up to random.seed(1118)
Enter ==
    /\ pc = "idle"
    /\ run < MaxRuns
    /\ IF EmptyInput(inp.gdf)
       THEN /\ optim_result' = NoneResult
            /\ pc' = "returned"
            /\ UNCHANGED <<rng, population, offspring, gen, pool>>
       ELSE IF ~inp.numeric_bounds
       THEN \* the pool is created, then toolbox.population raises TypeError in
            \* random.uniform, outside the try statement
            /\ pool' = IF inp.parallel THEN "open" ELSE "none"
            /\ pc' = "raised"
            /\ UNCHANGED <<rng, population, offspring, gen, optim_result>>
       ELSE \E made \in {MakePopulation(inp.pop_size, rng, inp.lower_bounds, inp.upper_bounds)} :
                /\ pool' = IF inp.parallel THEN "open" ELSE "none"
                /\ population' = made.inds
                /\ rng' = Seeded(made.rng, Seed)
                /\ offspring' = <<>>
                /\ gen' = 0
                /\ pc' = "evaluate_population"
                /\ UNCHANGED optim_result
    /\ UNCHANGED <<inp, run, nevals, output, results, fnvars>>

\* eaSimple: evaluate the individuals with an invalid fitness (the whole population)
EvaluatePopulation ==
    /\ pc = "evaluate_population"
    /\ \E e \in {EvaluateInvalid(inp, population)} :
           /\ population' = e.inds
           /\ nevals' = nevals + e.nevals
           /\ pc' = IF e.raised # "none" THEN "failed"
                    ELSE IF gen < inp.max_iter THEN "select" ELSE "finish"
    /\ UNCHANGED <<inp, rng, run, offspring, gen, pool, optim_result, output, results, fnvars>>

\* eaSimple: offspring = toolbox.select(population, len(population))
Select ==
    /\ pc = "select"
    /\ \E sel \in {selTournament(population, Len(population), rng)} :
           /\ offspring' = sel.inds
           /\ rng' = sel.rng
    /\ pc' = "vary"
    /\ UNCHANGED <<inp, run, population, gen, pool, nevals, optim_result, output, results, fnvars>>

\* eaSimple: offspring = varAnd(offspring, toolbox, cxpb, mutpb)
Vary ==
    /\ pc = "vary"
    /\ \E v \in {varAnd(offspring, rng)} :
           /\ offspring' = v.inds
           /\ rng' = v.rng
    /\ pc' = "evaluate_offspring"
    /\ UNCHANGED <<inp, run, population, gen, pool, nevals, optim_result, output, results, fnvars>>

\* eaSimple: evaluate the offspring with an invalid fitness
EvaluateOffspring ==
    /\ pc = "evaluate_offspring"
    /\ \E e \in {EvaluateInvalid(inp, offspring)} :
           /\ offspring' = e.inds
           /\ nevals' = nevals + e.nevals
           /\ pc' = IF e.raised # "none" THEN "failed" ELSE "replace"
    /\ UNCHANGED <<inp, rng, run, population, gen, pool, optim_result, output, results, fnvars>>

\* a replacement that ends the loop after the first generation
ReplaceAndStop ==
    /\ pc = "replace"
    /\ population' = offspring
    /\ gen' = gen + 1
    /\ pc' = "finish"
    /\ UNCHANGED <<inp, rng, run, offspring, pool, nevals, optim_result, output, results, fnvars>>

\* eaSimple: population[:] = offspring, and the next generation or the end of the loop
Replace ==
    /\ pc = "replace"
    /\ population' = offspring
    /\ gen' = gen + 1
    /\ pc' = IF gen + 1 < inp.max_iter THEN "select" ELSE "finish"
    /\ UNCHANGED <<inp, rng, run, offspring, pool, nevals, optim_result, output, results, fnvars>>

\* eaSimple returned: the finally clause, then the best individual is the result
Finish ==
    /\ pc = "finish"
    /\ pool' = IF inp.parallel THEN "closed" ELSE pool
    /\ \E best_ind \in {selBest(population)} :
           optim_result' = [none |-> FALSE, best_x |-> best_ind.x, best_y |-> best_ind.y,
                            best_value |-> best_ind.fit]
    /\ pc' = "returned"
    /\ UNCHANGED <<inp, rng, run, population, offspring, gen, nevals, output, results, fnvars>>

\* eaSimple raised: the except clause returns None, after the finally clause
Fail ==
    /\ pc = "failed"
    /\ pool' = IF inp.parallel THEN "closed" ELSE pool
    /\ optim_result' = NoneResult
    /\ pc' = "returned"
    /\ UNCHANGED <<inp, rng, run, population, offspring, gen, nevals, output, results, fnvars>>

\* what positional_correction returns for a result of minimize_loss
Corrected(gdf, res) ==
    IF res.none THEN gdf ELSE position_adjustment(gdf, res.best_x, res.best_y)

\* positional_correction: minimize_loss returned
Return ==
    /\ pc = "returned"
    /\ output' = Corrected(inp.gdf, optim_result)
    /\ results' = Append(results, optim_result)
    /\ run' = run + 1
    /\ pc' = "idle"
    /\ UNCHANGED <<inp, rng, population, offspring, gen, pool, nevals, optim_result, fnvars>>

(***************************************************************************)
(* The process: it calls positional_correction MaxRuns times with the same *)
(* arguments.  The generator is in an arbitrary state when it starts.      *)
(***************************************************************************)
\* a frame that already has orig_x, orig_y (an output of linear_alignment or of
\* position_adjustment)
WithOrigColumns(frame) ==
    Frame(frame.cols \cup {"orig_x", "orig_y"},
          [i \in 1..Len(frame.rows) |->
              [frame.rows[i] EXCEPT !.orig_x = frame.rows[i].x, !.orig_y = frame.rows[i].y]])

RECURSIVE SortedSeqOf(_)
SortedSeqOf(S) ==
    IF S = {} THEN <<>>
    ELSE LET m == CHOOSE m \in S : \A k \in S : m <= k
         IN  <<m>> \o SortedSeqOf(S \ {m})

\* the frames with at most MaxPts points on the row y = 0, at distinct x of xs,
\* with reference measurements drawn from refs
FramesOn(xs, refs) ==
    {Frame(BaseCols, [i \in 1..Cardinality(S) |-> Row(SortedSeqOf(S)[i], 0, f[SortedSeqOf(S)[i]])]) :
        <<S, f>> \in UNION {{<<S, f>> : f \in [S -> refs]} :
                              S \in {T \in SUBSET xs : Cardinality(T) <= MaxPts}}}

RunFrames ==
    FramesOn({0, 1}, {R(100), R(2)})
        \cup {WithOrigColumns(f) : f \in FramesOn({0}, {R(100)})}

Boxes == {[lower |-> <<0, 0>>, upper |-> <<0, 0>>],
          [lower |-> <<0 - 1, 0 - 1>>, upper |-> <<1, 1>>],
          [lower |-> <<0, 0>>, upper |-> <<RasterW - 1, RasterH - 1>>]}

RngStarts == {s \in 0..(RngMod - 1) : s % 6 = 0}

FnIdle ==
    /\ fcall = [gdf |-> Frame(BaseCols, <<>>), raster |-> Const100Raster, buf |-> 0,
                stat |-> "mean", method |-> "euclidean", lidar_value |-> "None",
                add_x |-> 0, add_y |-> 0]
    /\ fpc = "idle"
    /\ fret = [raised |-> "pending"]

RunIdle ==
    /\ rng = [s |-> 0, n |-> 0]
    /\ pc = "idle"
    /\ run = 0
    /\ population = <<>>
    /\ offspring = <<>>
    /\ gen = 0
    /\ pool = "none"
    /\ nevals = 0
    /\ optim_result = NoneResult
    /\ output = Frame(BaseCols, <<>>)
    /\ results = <<>>

\* numeric_bounds is FALSE when an entry of lower_bounds or upper_bounds is not a
\* number (None, a string); the entries are then never read as numbers.  A call that
\* raises ends the process: pc stays "raised".
Init ==
    /\ FnIdle
    /\ \E box \in Boxes :
          inp \in [gdf : RunFrames, raster : {Const100Raster, RampRaster}, buf : 0..MaxBuf,
                   stat : {"mean"}, method : {"euclidean", "manhattan", "cosine"},
                   lidar_value : {"None", "elevation"},
                   lower_bounds : {box.lower}, upper_bounds : {box.upper},
                   numeric_bounds : BOOLEAN,
                   pop_size : 1..MaxPop, max_iter : 0..MaxIter, parallel : BOOLEAN]
    /\ rng \in [s : RngStarts, n : {0}]
    /\ pc = "idle"
    /\ run = 0
    /\ population = <<>>
    /\ offspring = <<>>
    /\ gen = 0
    /\ pool = "none"
    /\ nevals = 0
    /\ optim_result = NoneResult
    /\ output = Frame(BaseCols, <<>>)
    /\ results = <<>>

Next ==
    \/ Enter
    \/ EvaluatePopulation
    \/ Select
    \/ Vary
    \/ EvaluateOffspring
    \/ Replace
    \/ Finish
    \/ Fail
    \/ Return

Spec == Init /\ [][Next]_vars

\* the calls with reference measurements far from the raster values (elevations of a
\* mountain range against a raster of small numbers), compared by "manhattan"
FarReferenceInit ==
    /\ FnIdle
    /\ inp \in [gdf : FramesOn({0, 1}, {R(2000)}), raster : {RampRaster}, buf : {0},
                 stat : {"mean"}, method : {"manhattan", "cosine"},
                 lidar_value : {"elevation"},
                 lower_bounds : {<<0 - 1, 0 - 1>>}, upper_bounds : {<<1, 1>>},
                 numeric_bounds : BOOLEAN,
                 pop_size : 1..MaxPop, max_iter : 0..MaxIter, parallel : BOOLEAN]
    /\ rng \in [s : RngStarts, n : {0}]
    /\ pc = "idle"
    /\ run = 0
    /\ population = <<>>
    /\ offspring = <<>>
    /\ gen = 0
    /\ pool = "none"
    /\ nevals = 0
    /\ optim_result = NoneResult
    /\ output = Frame(BaseCols, <<>>)
    /\ results = <<>>

SpecFarReference == FarReferenceInit /\ [][Next]_vars

\* the calls on the ramp raster with a reference column, from one generator state
TerminationInit ==
    /\ Init
    /\ inp.raster = RampRaster
    /\ inp.method = "euclidean"
    /\ inp.lidar_value = "elevation"
    /\ inp.gdf \in FramesOn({0, 1}, {R(2)})
    /\ rng.s = 0

\* the interpreter keeps executing the call: a step that can be taken is taken
FairSpec == TerminationInit /\ [][Next]_vars /\ WF_vars(Next)

(***************************************************************************)
(* Callers of the library functions: the arguments are drawn in the        *)
(* initial state, one action per function applies it.                      *)
(***************************************************************************)
SampleXs == (0 - 2)..(RasterW - 1)

RefValues == {R(1), R(2), R(3), NaN}

NoReturn == [raised |-> "pending"]

IdleInput == [gdf |-> Frame(BaseCols, <<>>), raster |-> Const100Raster, buf |-> 0, stat |-> "mean",
              method |-> "euclidean", lidar_value |-> "None", lower_bounds |-> <<0, 0>>,
              upper_bounds |-> <<0, 0>>, numeric_bounds |-> TRUE, pop_size |-> 1, max_iter |-> 0,
              parallel |-> FALSE]

ExtractInit ==
    /\ fcall \in [gdf : FramesOn(SampleXs, {R(1)}), raster : Rasters, buf : 0..MaxBuf,
                  stat : Stats \cup {"mode"}, method : {"euclidean"}, lidar_value : {"None"},
                  add_x : {0}, add_y : {0}]
    /\ fpc = "call"
    /\ fret = NoReturn
    /\ inp = IdleInput
    /\ RunIdle

LossInit ==
    /\ fcall \in [gdf : FramesOn(SampleXs \ {0 - 1}, RefValues), raster : Rasters, buf : 0..MaxBuf,
                  stat : {"mean"}, method : Methods \cup {"cosine"},
                  lidar_value : {"None", "elevation"}, add_x : {0, 1}, add_y : {0}]
    /\ fpc = "call"
    /\ fret = NoReturn
    /\ inp = IdleInput
    /\ RunIdle

CallExtractValues ==
    /\ fpc = "call"
    /\ fret' = extract_values(fcall.gdf, fcall.raster, fcall.buf, fcall.stat)
    /\ fpc' = "extract_values"
    /\ UNCHANGED <<fcall, runvars>>

CallGetLoss ==
    /\ fpc = "call"
    /\ fret' = get_loss(fcall.gdf, fcall.add_x, fcall.add_y, fcall.buf, fcall.raster,
                        fcall.method, fcall.stat, fcall.lidar_value)
    /\ fpc' = "get_loss"
    /\ UNCHANGED <<fcall, runvars>>

CallPerformDistance ==
    /\ fpc = "call"
    /\ fret' = perform_distance(fcall.gdf, fcall.raster, fcall.method, fcall.buf,
                                fcall.stat, fcall.lidar_value)
    /\ fpc' = "perform_distance"
    /\ UNCHANGED <<fcall, runvars>>

ExtractNext == CallExtractValues

LossNext == CallGetLoss \/ CallPerformDistance

SpecExtract == ExtractInit /\ [][ExtractNext]_vars

SpecLoss == LossInit /\ [][LossNext]_vars

Chars(c, n) == [i \in 1..n |-> c]

\* shot numbers of two shot groups, and one shorter than a group name
ShotNumbers ==
    {Chars("A", ShotGroupChars) \o <<"1">>, Chars("A", ShotGroupChars) \o <<"2">>,
     Chars("B", ShotGroupChars) \o <<"1">>, <<"A">>}

\* the frames with at most MaxPts points on the row y = 0, at distinct x, each with a
\* shot number, and the same frames without the shot_number column
AlignFrames ==
    {Frame(cols, [i \in 1..Cardinality(S) |->
                     AlignRow(SortedSeqOf(S)[i], 0, f[SortedSeqOf(S)[i]])]) :
        <<cols, S, f>> \in UNION {{<<cols, S, f>> : f \in [S -> ShotNumbers],
                                                    cols \in {{"geometry", "shot_number"},
                                                              {"geometry"}}} :
                                   S \in {T \in SUBSET SampleXs : Cardinality(T) <= MaxPts}}}

AlignInit ==
    /\ fcall \in [gdf : AlignFrames]
    /\ fpc = "call"
    /\ fret = NoReturn
    /\ inp = IdleInput
    /\ RunIdle

CallLinearAlignment ==
    /\ fpc = "call"
    /\ fret' = linear_alignment(fcall.gdf)
    /\ fpc' = "linear_alignment"
    /\ UNCHANGED <<fcall, runvars>>

AlignNext == CallLinearAlignment

SpecAlign == AlignInit /\ [][AlignNext]_vars

(***************************************************************************)
(* Claims about the library functions.                                     *)
(***************************************************************************)
\* the values of the raster cells the sample geometry covers that differ from the
\* raster's nodata sentinel, row-major
GeometryValues(raster, x, y, buf) ==
    LET Covered(cr) == InGeometry(cr, x, y, buf)
        Valid(v)    == v # raster.nodata
        cells       == SelectSeq(AllCells, Covered)
    IN  SelectSeq([i \in 1..Len(cells) |-> raster.cells[cells[i]]], Valid)

StatisticOf(stat, v) ==
    CASE stat = "mean"   -> NpMean(v)
      [] stat = "median" -> NpMedian(v)
      [] stat = "min"    -> NpMin(v)
      [] stat = "max"    -> NpMax(v)
      [] stat = "sum"    -> NpSum(v)

\* the reference values and the sampled values of the pairs get_loss keeps
KeptReference(frame) ==
    TakeIndices(ColumnValues(frame), ValidIndices(ColumnValues(frame), ExtractedValues(frame)))

KeptSampled(frame) ==
    TakeIndices(ExtractedValues(frame), ValidIndices(ColumnValues(frame), ExtractedValues(frame)))

\* C2: for method "correlation" and a non-empty set of valid pairs, the loss get_loss
\* returns is 1 minus the Pearson correlation of the reference and the sampled values
\* (1000 when the correlation is undefined), so perfectly correlated inputs give loss 0.
C2_CorrelationLossIsOneMinusPearson ==
    (/\ fpc = "get_loss"
     /\ fcall.method = "correlation"
     /\ fcall.lidar_value = "elevation"
     /\ fret.raised = "none"
     /\ KeptReference(fret.adjusted_footprints) # <<>>)
    => LET r == Pearson(KeptReference(fret.adjusted_footprints),
                        KeptSampled(fret.adjusted_footprints))
       IN  fret.loss_value = IF LossIsNaN(r) THEN LossRat(R(1000)) ELSE OneMinus(r)

\* C3: for every point, buffer and supported statistic, the value extract_values stores
\* is the statistic of exactly the cells that intersect the sample geometry and differ
\* from the raster's nodata sentinel, and NaN when there is no such cell.
C3_SampleIsStatisticOfValidCells ==
    (fpc = "extract_values" /\ fcall.stat \in Stats)
    => \A i \in 1..Len(fcall.gdf.rows) :
          LET row == fcall.gdf.rows[i]
              v   == GeometryValues(fcall.raster, row.x, row.y, fcall.buf)
          IN  fret.frame.rows[i].extracted_value =
                  IF v = <<>> THEN NaN ELSE StatisticOf(fcall.stat, v)

\* C4: extract_values called with a statistic outside {mean, median, min, max, sum}
\* fails with an error that reaches the caller.
C4_UnknownStatisticRaises ==
    (fpc = "extract_values" /\ fcall.stat \notin Stats) => fret.raised = "ValueError"

\* C5: get_loss and perform_distance called with a method outside the six supported
\* ones fail with an error, whatever the points, the offset, the number of valid pairs
\* and whether a reference column is supplied.
C5_UnknownMethodRaises ==
    (fpc \in {"get_loss", "perform_distance"} /\ fcall.method \notin Methods)
    => fret.raised = "ValueError"

(***************************************************************************)
(* Claims about the optimizer and the driver.                              *)
(***************************************************************************)
InBox(x, y) ==
    /\ inp.lower_bounds[1] <= x /\ x <= inp.upper_bounds[1]
    /\ inp.lower_bounds[2] <= y /\ y <= inp.upper_bounds[2]

\* a call of positional_correction has returned
CallReturned == pc = "idle" /\ run > 0

\* C1: two runs of minimize_loss with the same arguments (parallel off) return the same
\* result, whatever the state of the random generator when each run starts; a second
\* run made right after a first one returns what the first returned.
C1_RunsWithSameInputsAgree ==
    ~inp.parallel => \A i, j \in 1..Len(results) : results[i] = results[j]

\* C6: every individual of the search (initial population, after crossover, after
\* mutation, after replacement) lies inside the caller's box, and so does the result.
C6_OffsetsStayInBox ==
    /\ \A i \in 1..Len(population) : InBox(population[i].x, population[i].y)
    /\ \A i \in 1..Len(offspring) : InBox(offspring[i].x, offspring[i].y)
    /\ \A i \in 1..Len(results) :
          ~results[i].none => InBox(results[i].best_x, results[i].best_y)

\* C7: with the degenerate box [0,0] x [0,0], a raster of constant 100 and reference
\* measurements all 100, minimize_loss with method "euclidean" returns offset (0, 0)
\* with loss 0, for every pop_size >= 1 and max_iter >= 0.
C7_DegenerateBoxGivesZeroOffset ==
    (/\ inp.lower_bounds = <<0, 0>> /\ inp.upper_bounds = <<0, 0>>
     /\ inp.raster = Const100Raster
     /\ inp.method = "euclidean"
     /\ inp.lidar_value = "elevation"
     /\ ~inp.parallel
     /\ inp.gdf.rows # <<>>
     /\ \A i \in 1..Len(inp.gdf.rows) : inp.gdf.rows[i].ref = R(100))
    => \A i \in 1..Len(results) :
          results[i] = [none |-> FALSE, best_x |-> 0, best_y |-> 0, best_value |-> LossRat(R(0))]

\* what tells a corrected point set from one passed through: the columns a
\* correction adds
LooksCorrected(frame) == {"orig_x", "orig_y"} \subseteq frame.cols

\* C8: when the optimizer reports failure, positional_correction returns the input
\* point set unmodified, and the caller can tell this pass-through from a successful
\* correction.
C8_FailureIsFlaggedPassThrough ==
    (CallReturned /\ optim_result.none)
    => (output = inp.gdf /\ ~LooksCorrected(output))

\* C9: with an empty point set minimize_loss does not run the optimizer: no individual
\* is generated, no fitness is evaluated, no random number is drawn, no pool is
\* created, and the result is None.
C9_EmptyInputRunsNothing ==
    Len(inp.gdf.rows) = 0
    => /\ population = <<>> /\ offspring = <<>>
       /\ nevals = 0
       /\ rng.n = 0
       /\ pool = "none"
       /\ pc \in {"idle", "returned"}
       /\ (pc = "returned" => optim_result.none)
       /\ \A i \in 1..Len(results) : results[i].none

C9_EmptyInputReturned ==
    Len(inp.gdf.rows) = 0 /\ inp.parallel /\ CallReturned /\ Len(results) = run

\* C10: on a successful run positional_correction returns one row per input row, at
\* the input coordinates plus the offset the optimizer returned, with the input
\* coordinates kept in orig_x, orig_y; the input point set is not changed.
C10_OutputIsShiftedInput ==
    (CallReturned /\ ~optim_result.none)
    => /\ Len(output.rows) = Len(inp.gdf.rows)
       /\ LooksCorrected(output)
       /\ \A i \in 1..Len(output.rows) :
             /\ output.rows[i].x = inp.gdf.rows[i].x + optim_result.best_x
             /\ output.rows[i].y = inp.gdf.rows[i].y + optim_result.best_y
             /\ output.rows[i].orig_x = inp.gdf.rows[i].x
             /\ output.rows[i].orig_y = inp.gdf.rows[i].y
             /\ output.rows[i].ref = inp.gdf.rows[i].ref

C10_ShiftedOutputReturned ==
    /\ CallReturned /\ ~optim_result.none
    /\ Len(output.rows) = 2
    /\ optim_result.best_x # 0
    /\ optim_result.best_y # 0

\* the search has started and has neither failed nor returned
Searching == pc \in {"evaluate_population", "select", "vary", "evaluate_offspring", "replace", "finish"}

\* C11: a non-failing run on a non-empty point set makes exactly max_iter generation
\* steps and then returns; with max_iter = 0 it makes none and returns the best
\* individual of the evaluated initial population.
C11_RunsMaxIterGenerations ==
    /\ [](/\ pc \in {"select", "vary", "evaluate_offspring", "replace"} => gen < inp.max_iter
          /\ pc = "finish" => gen = inp.max_iter
          /\ (pc = "returned" /\ ~optim_result.none)
              => /\ gen = inp.max_iter
                 /\ inp.max_iter = 0
                    => /\ offspring = <<>>
                       /\ \A i \in 1..Len(population) : population[i].valid
                       /\ \E i \in 1..Len(population) :
                             /\ population[i].x = optim_result.best_x
                             /\ population[i].y = optim_result.best_y
                             /\ population[i].fit = optim_result.best_value
                       /\ \A i \in 1..Len(population) :
                             ~LossLt(population[i].fit, optim_result.best_value))
    /\ (Searching ~> pc = "returned")

C11_AllGenerationsRun ==
    /\ pc = "returned" /\ ~optim_result.none
    /\ inp.max_iter = MaxIter /\ gen = MaxIter
    /\ inp.pop_size = MaxPop

\* C12: the result returned is an individual of the final population, and no
\* individual of the final population has a strictly lower loss.
C12_ResultIsBestOfFinalPopulation ==
    (pc = "returned" /\ ~optim_result.none)
    => /\ \E i \in 1..Len(population) :
             /\ population[i].valid
             /\ population[i].x = optim_result.best_x
             /\ population[i].y = optim_result.best_y
             /\ population[i].fit = optim_result.best_value
       /\ \A i \in 1..Len(population) :
             population[i].valid /\ ~LossLt(population[i].fit, optim_result.best_value)

C12_LaterIndividualIsBest ==
    /\ pc = "returned" /\ ~optim_result.none
    /\ Len(population) = 2
    /\ LossLt(population[2].fit, population[1].fit)
    /\ optim_result.best_value = population[2].fit

\* what the sequential evaluation (the builtin map) makes of the individuals
SequentialEvaluation(inds) == EvaluateFrom(inp, inds, 1, 0)

\* C13: with parallel on, the evaluation of a generation gives every individual the
\* fitness the sequential evaluation gives it, so the run returns what the sequential
\* run returns; the population is replaced only when every offspring is evaluated.
C13_ParallelEqualsSequential ==
    /\ [][(inp.parallel /\ pc = "evaluate_population"
              /\ SequentialEvaluation(population).raised = "none")
           => (population' = SequentialEvaluation(population).inds /\ pc' # "failed")]_vars
    /\ [][(inp.parallel /\ pc = "evaluate_offspring"
              /\ SequentialEvaluation(offspring).raised = "none")
           => (offspring' = SequentialEvaluation(offspring).inds /\ pc' # "failed")]_vars
    /\ [](pc = "replace" => \A i \in 1..Len(offspring) : offspring[i].valid)

\* the point of the row lies in a cell of the raster that holds valid data
InValidExtent(raster, row) ==
    <<row.x, row.y>> \in CellSet /\ raster.cells[<<row.x, row.y>>] # raster.nodata

WithoutRow(frame, j) ==
    Frame(frame.cols,
          [k \in 1..(Len(frame.rows) - 1) |-> IF k < j THEN frame.rows[k] ELSE frame.rows[k + 1]])

\* the sampling of row i raised an exception
SamplingFailed(i) == fret.printed[i] # "none"

\* C15: a sampling failure on one point is local: the call returns one row per input
\* point in the input order, the failing point's value is NaN, and every other point's
\* value is what the call without the failing point gives it.
C15_SamplingFailureIsLocal ==
    fpc = "extract_values"
    => /\ fret.raised = "none"
       /\ Len(fret.frame.rows) = Len(fcall.gdf.rows)
       /\ \A i \in 1..Len(fcall.gdf.rows) :
             /\ fret.frame.rows[i].x = fcall.gdf.rows[i].x
             /\ fret.frame.rows[i].y = fcall.gdf.rows[i].y
             /\ fret.frame.rows[i].ref = fcall.gdf.rows[i].ref
       /\ \A j \in 1..Len(fcall.gdf.rows) :
             SamplingFailed(j)
             => /\ IsNaN(fret.frame.rows[j].extracted_value)
                /\ \A i \in 1..(Len(fcall.gdf.rows) - 1) :
                      extract_values(WithoutRow(fcall.gdf, j), fcall.raster, fcall.buf,
                                     fcall.stat).frame.rows[i].extracted_value
                          = fret.frame.rows[IF i < j THEN i ELSE i + 1].extracted_value

C15_OnePointOutsideRaster ==
    /\ fpc = "extract_values" /\ fcall.stat = "mean"
    /\ Len(fcall.gdf.rows) = 2
    /\ SamplingFailed(1) /\ ~SamplingFailed(2)
    /\ IsNaN(fret.frame.rows[1].extracted_value)
    /\ ~IsNaN(fret.frame.rows[2].extracted_value)

\* the shifted and sampled point set of the call
SampledPointSet ==
    extract_values(position_adjustment(fcall.gdf, fcall.add_x, fcall.add_y),
                   fcall.raster, fcall.buf, fcall.stat).frame

ComparedPairs == ValidPairs(ColumnValues(SampledPointSet), ExtractedValues(SampledPointSet))

MetricComputed ==
    /\ fpc = "get_loss" /\ fcall.lidar_value = "elevation" /\ fret.raised = "none"
    /\ Len(ComparedPairs.u) > 0

\* C17: on two valid sequences of the same positive length the loss "manhattan" and
\* the loss "area" are the same number, the loss "euclidean" is never negative, and
\* it is 0 when the two sequences are the same.
C17_ManhattanIsAreaEuclideanNonNegative ==
    MetricComputed
    => /\ fcall.method = "manhattan"
          => fret.loss_value = MethodLoss("area", ComparedPairs.u, ComparedPairs.v).loss
       /\ fcall.method = "area"
          => fret.loss_value = MethodLoss("manhattan", ComparedPairs.u, ComparedPairs.v).loss
       /\ fcall.method = "euclidean"
          => /\ ~LossIsNaN(fret.loss_value)
             /\ ~LossLt(fret.loss_value, LossRat(R(0)))
             /\ ComparedPairs.u = ComparedPairs.v => fret.loss_value = LossRat(R(0))
       /\ euclidean(ComparedPairs.u, ComparedPairs.u) = LossRat(R(0))

C17_AreaWithOppositeDifferences ==
    /\ MetricComputed /\ fcall.method = "area"
    /\ Len(ComparedPairs.u) = 2
    /\ RLt(ComparedPairs.v[1], ComparedPairs.u[1])
    /\ RLt(ComparedPairs.u[2], ComparedPairs.v[2])
    /\ fret.loss_value = MethodLoss("manhattan", ComparedPairs.u, ComparedPairs.v).loss
    /\ LossLt(LossRat(R(0)), fret.loss_value)

\* C18: the Hausdorff loss of two sequences does not depend on their order, and it
\* is the larger of the two directed Hausdorff distances.
C18_HausdorffIsSymmetricMaxOfDirected ==
    (MetricComputed /\ fcall.method = "hausdorff")
    => /\ fret.loss_value = hausdorff_distance(ComparedPairs.v, ComparedPairs.u)
       /\ fret.loss_value.q \in {DirectedHausdorff(ComparedPairs.u, ComparedPairs.v),
                                 DirectedHausdorff(ComparedPairs.v, ComparedPairs.u)}
       /\ RLe(DirectedHausdorff(ComparedPairs.u, ComparedPairs.v), fret.loss_value.q)
       /\ RLe(DirectedHausdorff(ComparedPairs.v, ComparedPairs.u), fret.loss_value.q)
       /\ ~fret.loss_value.root /\ ~fret.loss_value.om

C18_DirectedDistancesDiffer ==
    /\ MetricComputed /\ fcall.method = "hausdorff"
    /\ RLt(DirectedHausdorff(ComparedPairs.u, ComparedPairs.v),
           DirectedHausdorff(ComparedPairs.v, ComparedPairs.u))
    /\ fret.loss_value = LossRat(DirectedHausdorff(ComparedPairs.v, ComparedPairs.u))

\* the positions of the pairs that get_loss keeps
KeptPositions ==
    ValidIndices(ColumnValues(SampledPointSet), ExtractedValues(SampledPointSet))

ReferenceCompared ==
    /\ fpc = "get_loss" /\ fcall.lidar_value = "elevation"

RowsCorrespond(inrows, outrows) ==
    \E p \in [1..Len(outrows) -> 1..Len(inrows)] :
        /\ \A j, k \in 1..Len(outrows) : p[j] = p[k] => j = k
        /\ \A k \in 1..Len(outrows) :
              /\ outrows[k].shot_number = inrows[p[k]].shot_number
              /\ outrows[k].orig_x = inrows[p[k]].x
              /\ outrows[k].orig_y = inrows[p[k]].y
              /\ ~IsNaN(outrows[k].coords_x) /\ ~IsNaN(outrows[k].coords_y)

\* C19: for every input with a shot_number column, however its rows fall into shot
\* groups, linear_alignment returns one output row per input row, with the columns
\* orig_x, orig_y, coords_x, coords_y, and orig_x, orig_y are the row's input coordinates.
C19_OneOutputRowPerInputRow ==
    (fpc = "linear_alignment" /\ "shot_number" \in fcall.gdf.cols)
    => /\ fret.raised = "none"
       /\ Len(fret.frame.rows) = Len(fcall.gdf.rows)
       /\ AlignedCols \subseteq fret.frame.cols
       /\ RowsCorrespond(fcall.gdf.rows, fret.frame.rows)

\* the fitness attached to every individual is the loss of its own offset
FitnessIsCurrent(inds) ==
    \A i \in 1..Len(inds) :
        /\ inds[i].valid
        /\ inds[i].fit = objective_function(inp, inds[i]).fit

InvalidCount(inds) == Cardinality({i \in 1..Len(inds) : ~inds[i].valid})

\* C21: in each generation the fitness function is called once for every offspring
\* whose fitness crossover or mutation invalidated and for no other; when the
\* population is replaced every individual has a fitness, and it is the loss of the
\* individual's current offset.
C21_FitnessIsNeverStale ==
    /\ [](pc = "vary" => \A i \in 1..Len(offspring) : offspring[i].valid)
    /\ [](pc = "replace" => FitnessIsCurrent(offspring))
    /\ [](pc \in {"select", "vary", "evaluate_offspring", "replace", "finish"}
              => FitnessIsCurrent(population))
    /\ [][(pc = "evaluate_offspring" /\ pc' = "replace")
             => /\ nevals' - nevals = InvalidCount(offspring)
                /\ \A i \in 1..Len(offspring) :
                      offspring[i].valid => offspring'[i] = offspring[i]
                /\ \A i \in 1..Len(offspring) :
                      /\ offspring'[i].x = offspring[i].x
                      /\ offspring'[i].y = offspring[i].y]_vars

C21_VariedOffspringEvaluated ==
    /\ pc = "replace"
    /\ \E i \in 1..Len(offspring) :
          /\ offspring[i].valid
          /\ offspring[i].fit = objective_function(inp, offspring[i]).fit
          /\ \A j \in 1..Len(population) :
                /\ <<offspring[i].x, offspring[i].y>> # <<population[j].x, population[j].y>>
                /\ offspring[i].fit # population[j].fit

RunEnded == pc \in {"returned", "raised", "idle"}

\* C22: with parallel on, a run creates at most one worker pool, and however the run
\* ends after that (it completes, a fitness evaluation raises, or anything else
\* raises) the pool has been released when minimize_loss returns or raises.
C22_PoolReleasedWhenRunEnds ==
    /\ [](RunEnded => pool # "open")
    /\ [][(pool' = "open" /\ pool # "open") => pc = "idle"]_vars

\* the frame get_loss samples for the offset (x, y) of a run
SampledAt(x, y) ==
    extract_values(position_adjustment(inp.gdf, x, y), inp.raster, inp.buf, inp.stat).frame

\* the offset (x, y) is evaluated on at least one valid (reference, sampled) pair
HasValidPair(x, y) ==
    Len(ValidIndices(ColumnValues(SampledAt(x, y)), ExtractedValues(SampledAt(x, y)))) > 0

\* C23: a loss computed from at least one valid pair is at most the sentinel 1000, so
\* the best offset returned is never one evaluated on zero valid pairs while the final
\* population holds an offset evaluated on valid data with another loss.
C23_SentinelIsNeverBest ==
    (pc = "returned" /\ ~optim_result.none)
    => /\ \A i \in 1..Len(population) :
             HasValidPair(population[i].x, population[i].y)
             => ~LossLt(LossRat(R(NoValidDataLoss)), population[i].fit)
       /\ ~(/\ ~HasValidPair(optim_result.best_x, optim_result.best_y)
            /\ \E i \in 1..Len(population) :
                  /\ HasValidPair(population[i].x, population[i].y)
                  /\ population[i].fit # optim_result.best_value)

=============================================================================
